---------------------------- MODULE Spec2Model ----------------------------
(***************************************************************************)
(* G_video_clipper: the clip splitter (clipitdemo.py) and the keyword      *)
(* finder (keyword_finder.py).                                             *)
(*                                                                         *)
(* Spec    is the clip splitter: combine_entries (the greedy merge of      *)
(*         transcript fragments into spans), then save_segments.           *)
(* KwSpec  is one run of keyword_finder.main.                              *)
(* LibSpec is split_video and process_segments called as functions, with   *)
(*         any window size.                                                *)
(* CodecSpec is one call of format_time and parse_time.                    *)
(* ConcSpec is two runs of split_video and process_segments at once, on    *)
(*         two videos, on one machine.                                     *)
(*                                                                         *)
(* Times are whole seconds.  A text is a sequence of one-character         *)
(* strings.  Python's None is the empty sequence NoneV and a present value *)
(* x is Some(x), so that optional values stay comparable.                  *)
(***************************************************************************)
EXTENDS Integers, Sequences, FiniteSets, TLC

VARIABLES
    \* ---- clipitdemo.py
    pc,                \* position of the clip-splitting script
    entries,           \* get_segment_info(result): the transcript fragments
    idx,               \* combine_entries: 1-based index of the next entry of the for loop
    current_entry,     \* combine_entries: the running span, NoneV or Some(span)
    total_duration,    \* combine_entries: accumulated duration of the running span
    combined_entries,  \* combine_entries: the spans emitted so far; then the global
    clip_i,            \* save_segments: 1-based index of the next clip
    clips,             \* clip files written: set of [n, start, end]
    extract_failed,    \* clip numbers whose extraction raised
    \* ---- keyword_finder.py: the command line
    video,             \* args.video: "youtube" (a URL), "local" (an existing file), "missing"
    begin_arg,         \* args.begin: NoneV or Some(text)
    end_arg,           \* args.end: NoneV or Some(text)
    keywords_arg,      \* args.keywords: a text
    split_window,      \* the segment_duration argument that split_video is called with
    \* ---- keyword_finder.py: the run
    kpc,               \* position of main
    temp_file,         \* main: NoneV, or Some("youtube_video.mp4") once the download returned
    begin_time,        \* main: NoneV or Some(seconds)
    end_time,          \* main: NoneV or Some(seconds)
    keywords,          \* find_keywords_in_video: the list of keywords
    duration,          \* find_keywords_in_video: the probed duration
    start,             \* find_keywords_in_video: lower time bound, line 250
    end,               \* find_keywords_in_video: upper time bound, line 251
    segments,          \* the list split_video returned: segment numbers, sorted
    seg_i,             \* process_segments: 1-based position of the next segment
    results,           \* process_segments: NoneV or Some(keyword -> sequence of hits)
    error,             \* NoneV, or Some(name) of the exception that ended the run
    report,            \* NoneV, or Some(results) as written to args.output
    \* ---- keyword_finder.py: the temporary directory
    segment_files,     \* numbers n of the files segment_<n>.mp4 on disk
    youtube_file,      \* youtube_video.mp4: "absent", "partial" or "complete"
    \* ---- keyword_finder.py: what happened (history)
    transcribed,       \* per processed segment: [num, ok, fragments] as whisper answered
    undeletable,       \* segment numbers whose os.remove raised
    split_called,      \* split_video has been invoked
    \* ---- keyword_finder.py: the time codec called on its own
    codec_pc,          \* "idle", "format", "parse" or "done"
    seconds,           \* format_time's argument: NoneV or Some(seconds)
    time_arg,          \* parse_time's argument: NoneV (Python's None) or Some(text)
    parsed,            \* NoneV, or Some(answer of parse_time)
    \* ---- keyword_finder.py: two runs at once on one machine
    shared_files,      \* temporary directory: segment number -> NoFile or the run whose video the file holds
    run_chunks,        \* per run: the number of files ffmpeg writes for its video
    run_pc,            \* per run: "idle", "remove_old", "ffmpeg", "glob", "segments", "done"
    run_segments,      \* per run: the list split_video returned
    run_i,             \* per run: 1-based position of the next segment
    run_transcribed    \* per run: [num, video] of each segment processed, video = NoFile when the file was gone

clipVars == <<pc, entries, idx, current_entry, total_duration, combined_entries,
              clip_i, clips, extract_failed>>

kwVars == <<video, begin_arg, end_arg, keywords_arg, split_window, kpc, temp_file, begin_time,
            end_time, keywords, duration, start, end, segments, seg_i, results,
            error, report, segment_files, youtube_file, transcribed, undeletable,
            split_called>>

codecVars == <<codec_pc, seconds, time_arg, parsed>>

concVars == <<shared_files, run_chunks, run_pc, run_segments, run_i, run_transcribed>>

vars == <<clipVars, kwVars, codecVars, concVars>>

----------------------------------------------------------------------------
(* Bounds of the model *)

MaxEntries == 3

----------------------------------------------------------------------------
(* Values *)

NoneV == <<>>
Some(x) == <<x>>
IsNone(o) == o = NoneV
Val(o) == o[1]

Space == <<" ">>

----------------------------------------------------------------------------
(* Inputs of the clip splitter: transcript fragments as whisper returns    *)
(* them, ordered by start, each starting at or after the end of the one    *)
(* before.  The i-th fragment says the i-th word, so that a span's text    *)
(* tells which fragments it was built from.                                *)

Words == <<"a", "b", "c", "d", "e">>
FirstStarts == {0, 5}
Gaps == {0, 5}
FragDurations == {10, 15, 20, 35}

Fragment(s, e, t) == [start |-> s, end |-> e, text |-> t]

RECURSIVE FragSeqs(_)
FragSeqs(n) ==
    IF n = 0 THEN {<<>>}
    ELSE IF n = 1
         THEN {<<Fragment(s, s + d, <<Words[1]>>)>> : s \in FirstStarts, d \in FragDurations}
         ELSE {Append(q, Fragment(q[n - 1].end + g, q[n - 1].end + g + d, <<Words[n]>>)) :
                  q \in FragSeqs(n - 1), g \in Gaps, d \in FragDurations}

EntriesInputs == UNION {FragSeqs(n) : n \in 0..MaxEntries}

----------------------------------------------------------------------------
(* combine_entries, clipitdemo.py 64-104 *)

TargetDuration == 30

entry_duration(entry) == entry.end - entry.start

\* (variant of Exceeds: a span is closed as soon as the target is reached)
Exceeds_OrReaches(total, entry) == total + entry_duration(entry) >= TargetDuration

\* line 73: adding the entry exceeds 30 seconds
Exceeds(total, entry) == total + entry_duration(entry) > TargetDuration

\* lines 79-83 and 93-97: a new running span from the entry
NewEntry(entry) == [start |-> entry.start, end |-> entry.end, text |-> entry.text]

\* line 75: the running span as it is appended when the entry overflows it
ClosedEntry(cur, entry) == [cur EXCEPT !.end = entry["end"]]

\* (variant of ExtendedEntry: the text of the absorbed entry is not appended)
ExtendedEntry_DropText(cur, entry) == [cur EXCEPT !.end = entry["end"]]

\* lines 88-89: the entry is absorbed into the running span
ExtendedEntry(cur, entry) ==
    [cur EXCEPT !.end = entry["end"], !.text = cur.text \o Space \o entry.text]

\* One iteration of the for loop, lines 69-98.
CombineStep ==
    /\ pc = "combine"
    /\ idx <= Len(entries)
    /\ LET entry == entries[idx] IN
         IF Exceeds(total_duration, entry)
         THEN /\ combined_entries' =
                    IF IsNone(current_entry) THEN combined_entries
                    ELSE Append(combined_entries, ClosedEntry(Val(current_entry), entry))
              /\ current_entry' = Some(NewEntry(entry))
              /\ total_duration' = entry_duration(entry)
         ELSE IF ~IsNone(current_entry)
              THEN /\ current_entry' = Some(ExtendedEntry(Val(current_entry), entry))
                   /\ total_duration' = total_duration + entry_duration(entry)
                   /\ UNCHANGED combined_entries
              ELSE /\ current_entry' = Some(NewEntry(entry))
                   /\ total_duration' = entry_duration(entry)
                   /\ UNCHANGED combined_entries
    /\ idx' = idx + 1
    /\ UNCHANGED <<pc, entries, clip_i, clips, extract_failed, kwVars, codecVars, concVars>>

\* After the loop, lines 100-104, and the assignment of the global, line 107.
CombineReturn ==
    /\ pc = "combine"
    /\ idx > Len(entries)
    /\ combined_entries' =
           IF IsNone(current_entry) THEN combined_entries
           ELSE Append(combined_entries, Val(current_entry))
    /\ pc' = "save_segments"
    /\ clip_i' = 1
    /\ UNCHANGED <<entries, idx, current_entry, total_duration, clips, extract_failed, kwVars, codecVars, concVars>>

----------------------------------------------------------------------------
(* save_segments, clipitdemo.py 116-127, and the rest of the script *)

\* lines 123-127: one iteration; extract_video_segment (111-114) writes the
\* clip or raises, and nothing in save_segments or its caller catches it.
ExtractClip ==
    /\ pc = "save_segments"
    /\ clip_i <= Len(combined_entries)
    /\ LET segment == combined_entries[clip_i] IN
       \E ok \in BOOLEAN :
         IF ok
         THEN /\ clips' = clips \cup {[n |-> clip_i, start |-> segment.start, end |-> segment["end"]]}
              /\ clip_i' = clip_i + 1
              /\ UNCHANGED <<pc, extract_failed>>
         ELSE /\ extract_failed' = extract_failed \cup {clip_i}
              /\ pc' = "crashed"
              /\ UNCHANGED <<clips, clip_i>>
    /\ UNCHANGED <<entries, idx, current_entry, total_duration, combined_entries, kwVars, codecVars, concVars>>

\* lines 132-141: save_segments returned; the transcript is written and zipped.
FinishScript ==
    /\ pc = "save_segments"
    /\ clip_i > Len(combined_entries)
    /\ pc' = "done"
    /\ UNCHANGED <<entries, idx, current_entry, total_duration, combined_entries,
                   clip_i, clips, extract_failed, kwVars, codecVars, concVars>>

----------------------------------------------------------------------------
(* Python's str and int operations that keyword_finder.py uses, on texts   *)
(* (ASCII letters, digits, blank, comma, colon).                           *)

UpperLetters == <<"A", "B", "C", "D", "E", "F", "G", "H", "I", "J", "K", "L", "M",
                  "N", "O", "P", "Q", "R", "S", "T", "U", "V", "W", "X", "Y", "Z">>
LowerLetters == <<"a", "b", "c", "d", "e", "f", "g", "h", "i", "j", "k", "l", "m",
                  "n", "o", "p", "q", "r", "s", "t", "u", "v", "w", "x", "y", "z">>
DigitChars == <<"0", "1", "2", "3", "4", "5", "6", "7", "8", "9">>

lower_char(c) ==
    IF \E i \in 1..26 : UpperLetters[i] = c
    THEN LowerLetters[CHOOSE i \in 1..26 : UpperLetters[i] = c]
    ELSE c

\* str.lower()
lower(text) == [i \in 1..Len(text) |-> lower_char(text[i])]

\* needle in text
contains(needle, text) ==
    \E i \in 0..(Len(text) - Len(needle)) :
        \A j \in 1..Len(needle) : text[i + j] = needle[j]

RECURSIVE lstrip(_)
lstrip(s) == IF s # <<>> /\ s[1] = " " THEN lstrip(Tail(s)) ELSE s

RECURSIVE rstrip(_)
rstrip(s) == IF s # <<>> /\ s[Len(s)] = " " THEN rstrip(SubSeq(s, 1, Len(s) - 1)) ELSE s

\* str.strip()
strip(s) == rstrip(lstrip(s))

\* str.split(sep): the parts between the separators, empty parts kept
RECURSIVE split(_, _)
split(s, sep) ==
    IF \E i \in 1..Len(s) : s[i] = sep
    THEN LET i == CHOOSE i \in 1..Len(s) : s[i] = sep /\ \A j \in 1..(i - 1) : s[j] # sep
         IN  <<SubSeq(s, 1, i - 1)>> \o split(SubSeq(s, i + 1, Len(s)), sep)
    ELSE <<s>>

IsDigit(c) == \E i \in 1..10 : DigitChars[i] = c
DigitValue(c) == (CHOOSE i \in 1..10 : DigitChars[i] = c) - 1

\* the digits of an int literal: blanks around it and one sign are allowed
Unsigned(s) ==
    LET q == strip(s) IN IF q # <<>> /\ q[1] \in {"+", "-"} THEN Tail(q) ELSE q

\* int(s) does not raise ValueError
IsIntLiteral(s) ==
    /\ Unsigned(s) # <<>>
    /\ \A i \in 1..Len(Unsigned(s)) : IsDigit(Unsigned(s)[i])

RECURSIVE DigitsValue(_)
DigitsValue(ds) ==
    IF ds = <<>> THEN 0
    ELSE 10 * DigitsValue(SubSeq(ds, 1, Len(ds) - 1)) + DigitValue(ds[Len(ds)])

\* int(s), for s with IsIntLiteral(s)
int(s) ==
    LET q == strip(s) IN
    IF q[1] = "-" THEN 0 - DigitsValue(Unsigned(s)) ELSE DigitsValue(Unsigned(s))

----------------------------------------------------------------------------
(* parse_time, keyword_finder.py 80-93.  The answer is [raised, value]:    *)
(* raised for the ValueError of line 93, value NoneV or Some(seconds).     *)

Raised == [raised |-> TRUE, value |-> NoneV]
Returned(v) == [raised |-> FALSE, value |-> v]

\* parse_time without the failure of int(time_str) on a text of four or more
\* components: the first component is taken as the seconds
parse_time_FirstComponent(time_str) ==
    IF IsNone(time_str) THEN Returned(NoneV)
    ELSE LET parts == split(Val(time_str), ":") IN
         IF \E p \in 1..Len(parts) : ~IsIntLiteral(parts[p]) THEN Raised
         ELSE IF Len(parts) = 3
              THEN Returned(Some(int(parts[1]) * 3600 + int(parts[2]) * 60 + int(parts[3])))
         ELSE IF Len(parts) = 2
              THEN Returned(Some(int(parts[1]) * 60 + int(parts[2])))
              ELSE Returned(Some(int(parts[1])))

parse_time(time_str) ==
    IF IsNone(time_str) THEN Returned(NoneV)
    ELSE LET parts == split(Val(time_str), ":") IN
         IF \E p \in 1..Len(parts) : ~IsIntLiteral(parts[p]) THEN Raised
         ELSE IF Len(parts) = 3
              THEN Returned(Some(int(parts[1]) * 3600 + int(parts[2]) * 60 + int(parts[3])))
         ELSE IF Len(parts) = 2
              THEN Returned(Some(int(parts[1]) * 60 + int(parts[2])))
         ELSE IF IsIntLiteral(Val(time_str))
              THEN Returned(Some(int(Val(time_str))))
              ELSE Raised

\* str(n) for an int n >= 0
RECURSIVE str_int(_)
str_int(n) ==
    IF n < 10 THEN <<DigitChars[n + 1]>>
    ELSE str_int(n \div 10) \o <<DigitChars[(n % 10) + 1]>>

\* "%02d" % n for 0 <= n < 100
two_digits(n) == <<DigitChars[(n \div 10) + 1], DigitChars[(n % 10) + 1]>>

\* format_time, keyword_finder.py 95-97: str(datetime.timedelta(seconds=n)).
\* timedelta.__str__ writes "H:MM:SS" for the seconds inside the day, with
\* the hours not padded, and puts "D day, " or "D days, " in front when the
\* delta has days.
format_time(n) ==
    LET days == n \div 86400
        rest == n % 86400
        hh   == rest \div 3600
        mm   == (rest % 3600) \div 60
        ss   == rest % 60
        plural == IF days = 1 THEN <<>> ELSE <<"s">>
        prefix == IF days = 0 THEN <<>>
                  ELSE str_int(days) \o <<" ", "d", "a", "y">> \o plural \o <<",", " ">>
    IN  prefix \o str_int(hh) \o <<":">> \o two_digits(mm) \o <<":">> \o two_digits(ss)

----------------------------------------------------------------------------
(* Inputs of the keyword finder *)

MaxChunks == 2

segment_duration == 120
SegmentSeconds == 120

\* ffprobe's answers: videos of one to MaxChunks windows of w seconds
Durations(w) == {w * k - 20 : k \in 1..MaxChunks}

\* the files ffmpeg's segment muxer writes for a video of d seconds cut in
\* windows of w seconds: at most one per window (it cuts at key frames, so
\* there may be fewer)
Chunks(d, w) == (d + w - 1) \div w

\* the window sizes split_video is called with as a function
Windows == {60, segment_duration}

\* the number of a segment file that an earlier run left in the temporary
\* directory (beyond the files this run's ffmpeg writes)
StaleSegment == MaxChunks + 1

\* sorted(glob.glob(...)): the numbers of the files, ascending (the names
\* are zero-padded, so the order of the names is the order of the numbers)
RECURSIVE sorted(_)
sorted(S) ==
    IF S = {} THEN <<>>
    ELSE LET m == CHOOSE x \in S : \A y \in S : x <= y
         IN  <<m>> \o sorted(S \ {m})

BeginArgs == {NoneV, Some(<<"0">>), Some(<<"1", "0">>), Some(<<>>)}
EndArgs == {NoneV, Some(<<"1", "0">>), Some(<<"2", "0">>), Some(<<"x">>)}

KeywordArgs ==
    { <<"f", "o", "x">>,
      <<"F", "o", "x", ",", "c", "a", "t">>,
      <<"o", "x", ",", " ", "o", "x">>,
      <<>>,
      <<" ", ",", " ">> }

\* what whisper.transcribe may answer for one segment (times local to it)
TranscriptOptions ==
    { <<>>,
      <<Fragment(5, 15, <<"a", " ", "F", "o", "x">>)>>,
      <<Fragment(0, 5, <<"o", "x", " ", "c", "a", "t">>),
        Fragment(5, 15, <<"a", " ", "F", "o", "x">>)>> }

----------------------------------------------------------------------------
(* process_segments, keyword_finder.py 190-233 *)

Range(f) == {f[i] : i \in DOMAIN f}

\* (variant of InitResults: keys appear only when a keyword is first hit)
InitResults_Lazy(kws) == [k \in {} |-> <<>>]

\* line 192
InitResults(kws) == [k \in Range(kws) |-> <<>>]

\* lines 214-219: the keywords loop for one fragment, from keyword j on
RECURSIVE ScanKeywords(_, _, _, _, _)
ScanKeywords(res, segment, timestamp, kws, j) ==
    IF j > Len(kws) THEN res
    ELSE LET keyword == kws[j]
             text == lower(segment.text)
             hit == [timestamp |-> timestamp, text |-> segment.text]
         IN  ScanKeywords(
                 IF contains(lower(keyword), text)
                 THEN [res EXCEPT ![keyword] = Append(@, hit)]
                 ELSE res,
                 segment, timestamp, kws, j + 1)

\* lines 210-219: the fragments loop for one transcription, from fragment n on
RECURSIVE ScanFragments(_, _, _, _, _)
ScanFragments(res, fragments, start_time, kws, n) ==
    IF n > Len(fragments) THEN res
    ELSE ScanFragments(
             ScanKeywords(res, fragments[n], fragments[n].start + start_time, kws, 1),
             fragments, start_time, kws, n + 1)

\* (variant of StartTime: the offset of the position i in the loop)
StartTime_ByPosition(segment_num, i) == i * SegmentSeconds

\* line 201: the offset of the segment whose file name holds segment_num; i
\* is the position in the loop (enumerate, line 198), used for the log only
StartTime(segment_num, i) == segment_num * SegmentSeconds

\* (variant of OnSegmentError: the exception is raised again)
OnSegmentError_Raise == [kpc |-> "cleanup", error |-> Some("TranscriptionFailed")]

\* lines 222-224: an exception in the try body is logged and the loop goes on
OnSegmentError == [kpc |-> "segments", error |-> NoneV]

\* (variant of AfterCleanup: the file is removed at the end of the try body
\* instead of in a finally clause)
AfterCleanup_NoFinally(files, num, body_ok, remove_ok) ==
    IF remove_ok /\ body_ok THEN files \ {num} ELSE files

\* lines 226-231: the finally clause removes the segment file, whether or not
\* the body raised; an os.remove that raises is ignored
AfterCleanup(files, num, body_ok, remove_ok) ==
    IF remove_ok THEN files \ {num} ELSE files

----------------------------------------------------------------------------
(* main, keyword_finder.py 266-337, and what it calls *)

Truthy(arg) == ~IsNone(arg) /\ Val(arg) # <<>>

kwArgs == <<video, begin_arg, end_arg, keywords_arg, split_window>>

\* lines 275-289
StartMain ==
    /\ kpc = "main"
    /\ IF video = "youtube" THEN kpc' = "download" /\ UNCHANGED error
       ELSE IF video = "missing"
            THEN kpc' = "done" /\ error' = Some("FileNotFoundError")
            ELSE kpc' = "times" /\ UNCHANGED error
    /\ UNCHANGED <<kwArgs, temp_file, begin_time, end_time, keywords, duration, start,
                   end, segments, seg_i, results, report, segment_files,
                   youtube_file, transcribed, undeletable, split_called, clipVars, codecVars, concVars>>

\* download_youtube_video, lines 107-135, called at line 283 outside the inner
\* try: it returns the path of the downloaded file, or raises and may leave
\* a partly written file.
DownloadVideo ==
    /\ kpc = "download"
    /\ \E outcome \in {"complete", "partial", "absent"} :
         /\ youtube_file' = outcome
         /\ IF outcome = "complete"
            THEN /\ temp_file' = Some("youtube_video.mp4")
                 /\ kpc' = "times"
                 /\ UNCHANGED error
            ELSE /\ error' = Some("DownloadError")
                 /\ kpc' = "done"
                 /\ UNCHANGED temp_file
    /\ UNCHANGED <<kwArgs, begin_time, end_time, keywords, duration, start, end,
                   segments, seg_i, results, report, segment_files, transcribed,
                   undeletable, split_called, clipVars, codecVars, concVars>>

\* lines 292-298
ParseTimes ==
    /\ kpc = "times"
    /\ LET b == IF Truthy(begin_arg) THEN parse_time(begin_arg) ELSE Returned(NoneV)
           e == IF Truthy(end_arg) THEN parse_time(end_arg) ELSE Returned(NoneV)
       IN  IF b.raised
           THEN /\ error' = Some("ValueError")
                /\ kpc' = "cleanup"
                /\ UNCHANGED <<begin_time, end_time>>
           ELSE IF e.raised
           THEN /\ begin_time' = b.value
                /\ error' = Some("ValueError")
                /\ kpc' = "cleanup"
                /\ UNCHANGED end_time
           ELSE /\ begin_time' = b.value
                /\ end_time' = e.value
                /\ IF ~IsNone(b.value) /\ ~IsNone(e.value) /\ Val(b.value) >= Val(e.value)
                   THEN error' = Some("ValueError") /\ kpc' = "cleanup"
                   ELSE kpc' = "find" /\ UNCHANGED error
    /\ UNCHANGED <<kwArgs, temp_file, keywords, duration, start, end, segments, seg_i,
                   results, report, segment_files, youtube_file, transcribed,
                   undeletable, split_called, clipVars, codecVars, concVars>>

Min(a, b) == IF a <= b THEN a ELSE b

\* find_keywords_in_video, lines 238-251: the keywords are split and trimmed,
\* the duration is probed (get_video_duration, 137-151), the bounds are set.
ProbeDuration ==
    /\ kpc = "find"
    /\ keywords' = [i \in 1..Len(split(keywords_arg, ",")) |-> strip(split(keywords_arg, ",")[i])]
    /\ \/ \E d \in Durations(split_window) :
            /\ duration' = Some(d)
            /\ start' = Some(IF ~IsNone(begin_time) THEN Val(begin_time) ELSE 0)
            /\ end' = Some(Min(IF ~IsNone(end_time) THEN Val(end_time) ELSE d, d))
            /\ kpc' = "split"
            /\ UNCHANGED error
       \/ /\ error' = Some("CalledProcessError")
          /\ kpc' = "cleanup"
          /\ UNCHANGED <<duration, start, end>>
    /\ UNCHANGED <<kwArgs, temp_file, begin_time, end_time, segments, seg_i, results,
                   report, segment_files, youtube_file, transcribed, undeletable,
                   split_called, clipVars, codecVars, concVars>>

\* split_video, lines 153-188, called at line 255: old segment files are
\* removed (a removal that raises is ignored, lines 160-164, and the file
\* stays), ffmpeg writes segment_000.mp4, segment_001.mp4, ... and the sorted
\* list of all segment files is returned; when ffmpeg fails the files it
\* wrote so far stay and the exception is raised again.
SplitVideo ==
    /\ kpc = "split"
    /\ split_called' = TRUE
    /\ \E removed \in BOOLEAN :
       LET kept == IF removed THEN {} ELSE segment_files IN
       \/ \E n \in 1..Chunks(Val(duration), split_window) :
            /\ segment_files' = kept \cup 0..(n - 1)
            /\ segments' = sorted(kept \cup 0..(n - 1))
            /\ kpc' = "load_model"
            /\ UNCHANGED error
       \/ \E n \in 0..Chunks(Val(duration), split_window) :
            /\ segment_files' = kept \cup 0..(n - 1)
            /\ error' = Some("CalledProcessError")
            /\ kpc' = "cleanup"
            /\ UNCHANGED segments
    /\ UNCHANGED <<kwArgs, temp_file, begin_time, end_time, keywords, duration, start,
                   end, seg_i, results, report, youtube_file, transcribed,
                   undeletable, clipVars, codecVars, concVars>>

\* process_segments, lines 192-196: the result mapping, then the model
LoadModel ==
    /\ kpc = "load_model"
    /\ results' = Some(InitResults(keywords))
    /\ \/ kpc' = "segments" /\ seg_i' = 1 /\ UNCHANGED error
       \/ kpc' = "cleanup" /\ error' = Some("ModelLoadError") /\ UNCHANGED seg_i
    /\ UNCHANGED <<kwArgs, temp_file, begin_time, end_time, keywords, duration, start,
                   end, segments, report, segment_files, youtube_file, transcribed,
                   undeletable, split_called, clipVars, codecVars, concVars>>

\* process_segments, lines 198-231: one iteration of the loop.  answer is
\* NoneV when load_audio or transcribe raises.
ProcessSegment ==
    /\ kpc = "segments"
    /\ seg_i <= Len(segments)
    /\ LET segment_num == segments[seg_i]
           start_time == StartTime(segment_num, seg_i - 1)
       IN  \E answer \in {NoneV} \cup {Some(t) : t \in TranscriptOptions},
              remove_ok \in BOOLEAN :
             /\ results' = IF IsNone(answer) THEN results
                           ELSE Some(ScanFragments(Val(results), Val(answer),
                                                   start_time, keywords, 1))
             /\ transcribed' = Append(transcribed,
                    [num |-> segment_num, ok |-> ~IsNone(answer),
                     fragments |-> IF IsNone(answer) THEN <<>> ELSE Val(answer)])
             /\ segment_files' =
                    AfterCleanup(segment_files, segment_num, ~IsNone(answer), remove_ok)
             /\ undeletable' = IF remove_ok THEN undeletable
                               ELSE undeletable \cup {segment_num}
             /\ IF IsNone(answer)
                THEN kpc' = OnSegmentError.kpc /\ error' = OnSegmentError.error
                ELSE UNCHANGED <<kpc, error>>
    /\ seg_i' = seg_i + 1
    /\ UNCHANGED <<kwArgs, temp_file, begin_time, end_time, keywords, duration, start,
                   end, segments, report, youtube_file, split_called, clipVars, codecVars, concVars>>

\* lines 233 and 258-260: the loop is over, the mapping is returned to main
ReturnResults ==
    /\ kpc = "segments"
    /\ seg_i > Len(segments)
    /\ kpc' = "report"
    /\ UNCHANGED <<kwArgs, temp_file, begin_time, end_time, keywords, duration, start,
                   end, segments, seg_i, results, error, report, segment_files,
                   youtube_file, transcribed, undeletable, split_called, clipVars, codecVars, concVars>>

\* lines 303-326: the report is written, or opening or writing it raises
WriteReport ==
    /\ kpc = "report"
    /\ \/ report' = Some(Val(results)) /\ UNCHANGED error
       \/ error' = Some("OSError") /\ UNCHANGED report
    /\ kpc' = "cleanup"
    /\ UNCHANGED <<kwArgs, temp_file, begin_time, end_time, keywords, duration, start,
                   end, segments, seg_i, results, segment_files, youtube_file,
                   transcribed, undeletable, split_called, clipVars, codecVars, concVars>>

\* lines 328-337: the finally clause of the inner try removes the downloaded
\* file (an os.remove that raises is ignored); an exception is then printed.
Cleanup ==
    /\ kpc = "cleanup"
    /\ IF ~IsNone(temp_file) /\ youtube_file # "absent"
       THEN \E remove_ok \in BOOLEAN :
               youtube_file' = IF remove_ok THEN "absent" ELSE youtube_file
       ELSE UNCHANGED youtube_file
    /\ kpc' = "done"
    /\ UNCHANGED <<kwArgs, temp_file, begin_time, end_time, keywords, duration, start,
                   end, segments, seg_i, results, error, report, segment_files,
                   transcribed, undeletable, split_called, clipVars, codecVars, concVars>>

----------------------------------------------------------------------------
(* The time codec called on its own: format_time, then parse_time of its   *)
(* answer; or parse_time of a given text.                                  *)

MaxDays == 1

\* arguments of format_time: whole seconds of up to MaxDays days
SecondsInputs ==
    { d * 86400 + h * 3600 + m * 60 + s :
        d \in 0..MaxDays, h \in {0, 1, 23}, m \in {0, 1, 59}, s \in {0, 5, 59} }

\* arguments of parse_time: the three accepted shapes, with blanks and signs,
\* decimals, other characters, too many components, empty components
TimeTexts ==
    { <<"1", ":", "0", "2", ":", "0", "3">>,
      <<"1", "0", ":", "5">>,
      <<"4", "5">>,
      <<"0", "7">>,
      <<" ", "7", " ">>,
      <<"-", "5">>,
      <<"+", "5">>,
      <<"1", ":", "-", "2">>,
      <<"1", ".", "5">>,
      <<"2", ".", "0">>,
      <<"1", ":", "2", ".", "5">>,
      <<"x">>,
      <<"1", ":", "x">>,
      <<"1", ":", "2", ":", "3", ":", "4">>,
      <<"1", ":">>,
      <<":">>,
      <<" ">>,
      <<>> }

FormatTime ==
    /\ codec_pc = "format"
    /\ time_arg' = Some(format_time(Val(seconds)))
    /\ codec_pc' = "parse"
    /\ UNCHANGED <<seconds, parsed, clipVars, kwVars, concVars>>

ParseTime ==
    /\ codec_pc = "parse"
    /\ parsed' = Some(parse_time(time_arg))
    /\ codec_pc' = "done"
    /\ UNCHANGED <<seconds, time_arg, clipVars, kwVars, concVars>>

\* the time codec is not being called
CodecIdle ==
    /\ codec_pc = "idle"
    /\ seconds = NoneV
    /\ time_arg = NoneV
    /\ parsed = NoneV

----------------------------------------------------------------------------
(* Two runs at once.  Both use tempfile.gettempdir() and the same file     *)
(* names segment_%03d.mp4 (lines 156-157).  A step is one pass over the    *)
(* directory or one iteration of the loop of process_segments.             *)

Runs == {1, 2}
NoFile == 0
FileNumbers == 0..(MaxChunks - 1)

\* lines 160-164: every segment file in the directory is removed
RunRemoveOld(r) ==
    /\ run_pc[r] = "remove_old"
    /\ shared_files' = [n \in FileNumbers |-> NoFile]
    /\ run_pc' = [run_pc EXCEPT ![r] = "ffmpeg"]
    /\ UNCHANGED <<run_chunks, run_segments, run_i, run_transcribed,
                   clipVars, kwVars, codecVars>>

\* lines 167-181: ffmpeg writes the files of the run's video, over any file
\* of the same name
RunFfmpeg(r) ==
    /\ run_pc[r] = "ffmpeg"
    /\ shared_files' = [n \in FileNumbers |->
                            IF n < run_chunks[r] THEN r ELSE shared_files[n]]
    /\ run_pc' = [run_pc EXCEPT ![r] = "glob"]
    /\ UNCHANGED <<run_chunks, run_segments, run_i, run_transcribed,
                   clipVars, kwVars, codecVars>>

\* line 184: the sorted list of the segment files now in the directory
RunGlob(r) ==
    /\ run_pc[r] = "glob"
    /\ run_segments' = [run_segments EXCEPT
                            ![r] = sorted({n \in FileNumbers : shared_files[n] # NoFile})]
    /\ run_i' = [run_i EXCEPT ![r] = 1]
    /\ run_pc' = [run_pc EXCEPT ![r] = "segments"]
    /\ UNCHANGED <<shared_files, run_chunks, run_transcribed,
                   clipVars, kwVars, codecVars>>

\* lines 198-231: the file of the next segment is transcribed, whatever
\* video it holds now (when it is gone, load_audio raises and the segment is
\* skipped), and the file is removed if it exists
RunProcessSegment(r) ==
    /\ run_pc[r] = "segments"
    /\ run_i[r] <= Len(run_segments[r])
    /\ LET segment_num == run_segments[r][run_i[r]] IN
       /\ run_transcribed' = [run_transcribed EXCEPT
                                 ![r] = Append(@, [num |-> segment_num,
                                                   video |-> shared_files[segment_num]])]
       /\ shared_files' = [shared_files EXCEPT ![segment_num] = NoFile]
    /\ run_i' = [run_i EXCEPT ![r] = @ + 1]
    /\ UNCHANGED <<run_chunks, run_pc, run_segments, clipVars, kwVars, codecVars>>

\* line 233: the loop is over
RunReturn(r) ==
    /\ run_pc[r] = "segments"
    /\ run_i[r] > Len(run_segments[r])
    /\ run_pc' = [run_pc EXCEPT ![r] = "done"]
    /\ UNCHANGED <<shared_files, run_chunks, run_segments, run_i, run_transcribed,
                   clipVars, kwVars, codecVars>>

\* no second run
ConcIdle ==
    /\ shared_files = [n \in FileNumbers |-> NoFile]
    /\ run_chunks = [r \in Runs |-> 1]
    /\ run_pc = [r \in Runs |-> "idle"]
    /\ run_segments = [r \in Runs |-> <<>>]
    /\ run_i = [r \in Runs |-> 1]
    /\ run_transcribed = [r \in Runs |-> <<>>]

\* the keyword finder is not running
KwIdle ==
    /\ video = "local"
    /\ begin_arg = NoneV
    /\ end_arg = NoneV
    /\ keywords_arg = <<>>
    /\ split_window = segment_duration
    /\ kpc = "idle"
    /\ temp_file = NoneV
    /\ begin_time = NoneV
    /\ end_time = NoneV
    /\ keywords = <<>>
    /\ duration = NoneV
    /\ start = NoneV
    /\ end = NoneV
    /\ segments = <<>>
    /\ seg_i = 1
    /\ results = NoneV
    /\ error = NoneV
    /\ report = NoneV
    /\ segment_files = {}
    /\ youtube_file = "absent"
    /\ transcribed = <<>>
    /\ undeletable = {}
    /\ split_called = FALSE

\* the clip splitter is not running
ClipIdle ==
    /\ pc = "idle"
    /\ entries = <<>>
    /\ idx = 1
    /\ current_entry = NoneV
    /\ total_duration = 0
    /\ combined_entries = <<>>
    /\ clip_i = 1
    /\ clips = {}
    /\ extract_failed = {}

\* main is entered with the parsed command line; the temporary directory
\* holds no file of the program.
KwInit ==
    /\ video \in {"youtube", "local", "missing"}
    /\ begin_arg \in BeginArgs
    /\ end_arg \in EndArgs
    /\ keywords_arg \in KeywordArgs
    /\ split_window = segment_duration
    /\ kpc = "main"
    /\ temp_file = NoneV
    /\ begin_time = NoneV
    /\ end_time = NoneV
    /\ keywords = <<>>
    /\ duration = NoneV
    /\ start = NoneV
    /\ end = NoneV
    /\ segments = <<>>
    /\ seg_i = 1
    /\ results = NoneV
    /\ error = NoneV
    /\ report = NoneV
    /\ segment_files = {}
    /\ youtube_file = "absent"
    /\ transcribed = <<>>
    /\ undeletable = {}
    /\ split_called = FALSE
    /\ ClipIdle
    /\ CodecIdle
    /\ ConcIdle

KwNext ==
    \/ StartMain
    \/ DownloadVideo
    \/ ParseTimes
    \/ ProbeDuration
    \/ SplitVideo
    \/ LoadModel
    \/ ProcessSegment
    \/ ReturnResults
    \/ WriteReport
    \/ Cleanup

KwSpec == KwInit /\ [][KwNext]_vars

\* the keyword lists process_segments is called with as a function
LibKeywords ==
    { << <<"f", "o", "x">> >>,
      << <<"F", "o", "x">>, <<"c", "a", "t">> >> }

\* split_video(video_path, w) is about to be called as a function, and then
\* process_segments(segments, keywords) with the list it returns; the
\* temporary directory holds no segment file, or one that an earlier run left
LibInit ==
    /\ video = "local"
    /\ begin_arg = NoneV
    /\ end_arg = NoneV
    /\ keywords_arg = <<>>
    /\ split_window \in Windows
    /\ kpc = "split"
    /\ temp_file = NoneV
    /\ begin_time = NoneV
    /\ end_time = NoneV
    /\ keywords \in LibKeywords
    /\ duration \in {Some(d) : d \in Durations(split_window)}
    /\ start = NoneV
    /\ end = NoneV
    /\ segments = <<>>
    /\ seg_i = 1
    /\ results = NoneV
    /\ error = NoneV
    /\ report = NoneV
    /\ segment_files \in {{}, {StaleSegment}}
    /\ youtube_file = "absent"
    /\ transcribed = <<>>
    /\ undeletable = {}
    /\ split_called = FALSE
    /\ ClipIdle
    /\ CodecIdle
    /\ ConcIdle

LibNext ==
    \/ SplitVideo
    \/ LoadModel
    \/ ProcessSegment
    \/ ReturnResults

LibSpec == LibInit /\ [][LibNext]_vars

\* The clip splitter before combine_entries is called (the keyword finder is
\* not running).
Init ==
    /\ pc = "combine"
    /\ entries \in EntriesInputs
    /\ idx = 1
    /\ current_entry = NoneV
    /\ total_duration = 0
    /\ combined_entries = <<>>
    /\ clip_i = 1
    /\ clips = {}
    /\ extract_failed = {}
    /\ KwIdle
    /\ CodecIdle
    /\ ConcIdle

Next == CombineStep \/ CombineReturn \/ ExtractClip \/ FinishScript

Spec == Init /\ [][Next]_vars

\* format_time is called with whole seconds, or parse_time with None or a text
CodecInit ==
    /\ \/ /\ codec_pc = "format"
          /\ seconds \in {Some(n) : n \in SecondsInputs}
          /\ time_arg = NoneV
       \/ /\ codec_pc = "parse"
          /\ seconds = NoneV
          /\ time_arg \in {NoneV} \cup {Some(t) : t \in TimeTexts}
    /\ parsed = NoneV
    /\ ClipIdle
    /\ KwIdle
    /\ ConcIdle

CodecNext == FormatTime \/ ParseTime

CodecSpec == CodecInit /\ [][CodecNext]_vars

\* two runs are about to call split_video, each on its own video of one to
\* MaxChunks chunks; the temporary directory holds no segment file
ConcInit ==
    /\ shared_files = [n \in FileNumbers |-> NoFile]
    /\ run_chunks \in [Runs -> 1..MaxChunks]
    /\ run_pc = [r \in Runs |-> "remove_old"]
    /\ run_segments = [r \in Runs |-> <<>>]
    /\ run_i = [r \in Runs |-> 1]
    /\ run_transcribed = [r \in Runs |-> <<>>]
    /\ ClipIdle
    /\ KwIdle
    /\ CodecIdle

ConcNext ==
    \E r \in Runs :
       \/ RunRemoveOld(r)
       \/ RunFfmpeg(r)
       \/ RunGlob(r)
       \/ RunProcessSegment(r)
       \/ RunReturn(r)

ConcSpec == ConcInit /\ [][ConcNext]_vars

----------------------------------------------------------------------------
(* Properties of the clip splitter, checked under Spec *)

OrderedNonOverlapping(es) ==
    \A p \in 1..(Len(es) - 1) : es[p + 1].start >= es[p]["end"]

Contiguous(es) ==
    \A p \in 1..(Len(es) - 1) : es[p + 1].start = es[p]["end"]

MergeReturned == pc # "combine"

\* C1: when a fragment arrives with accumulated + fragment_duration > 30 while
\* a running span exists, the span that is closed and emitted is the running
\* span as the previously absorbed fragment left it (it ends at that
\* fragment's end and holds neither the time range nor the text of the
\* incoming fragment), and the incoming fragment starts the next span with
\* accumulated reset to its own duration.
C1_ClosedSpanExcludesIncoming ==
    [][(/\ pc = "combine"
        /\ idx <= Len(entries)
        /\ ~IsNone(current_entry)
        /\ Exceeds(total_duration, entries[idx]))
       => (/\ Len(combined_entries') = Len(combined_entries) + 1
           /\ combined_entries'[Len(combined_entries')].start = Val(current_entry).start
           /\ combined_entries'[Len(combined_entries')]["end"] = entries[idx - 1]["end"]
           /\ combined_entries'[Len(combined_entries')].text = Val(current_entry).text
           /\ current_entry' = Some(NewEntry(entries[idx]))
           /\ total_duration' = entry_duration(entries[idx]))]_vars

\* C2: for fragments ordered by start and pairwise non-overlapping, the spans
\* returned by the merge are in strictly increasing start order and no span
\* starts before the preceding span ends.
C2_SpansOrderedDisjoint ==
    (MergeReturned /\ OrderedNonOverlapping(entries))
    => \A j \in 1..(Len(combined_entries) - 1) :
          /\ combined_entries[j].start < combined_entries[j + 1].start
          /\ combined_entries[j + 1].start >= combined_entries[j]["end"]

\* C3: for contiguous ordered fragments, every emitted span is at most 30
\* seconds long or is exactly one source fragment that is itself longer than
\* 30 seconds (same start, end and text).
C3_SpanWithinTargetOrLoneFragment ==
    (MergeReturned /\ Contiguous(entries))
    => \A j \in 1..Len(combined_entries) :
          \/ combined_entries[j]["end"] - combined_entries[j].start <= TargetDuration
          \/ \E p \in 1..Len(entries) :
                /\ entry_duration(entries[p]) > TargetDuration
                /\ combined_entries[j] = NewEntry(entries[p])

\* C8: a failed extraction of clip i is recoverable: the run does not abort
\* and every clip whose extraction did not fail has been written when the
\* script ends.
C8_ExtractionFailureRecoverable ==
    (pc \in {"done", "crashed"})
    => /\ pc = "done"
       /\ \A n \in (1..Len(combined_entries)) \ extract_failed :
             \E c \in clips : c.n = n

\* the texts of a sequence of fragments or spans, joined with single spaces
RECURSIVE JoinTexts(_)
JoinTexts(es) ==
    IF es = <<>> THEN <<>>
    ELSE IF Len(es) = 1 THEN es[1].text
    ELSE JoinTexts(SubSeq(es, 1, Len(es) - 1)) \o <<" ">> \o es[Len(es)].text

\* C16: greedy tie-break of the merge.  In one iteration of the loop, a
\* fragment that arrives while a span is running and accumulated + duration
\* <= 30 (equality included) is absorbed: the span's end becomes the
\* fragment's end, its text gets a single space and the fragment's text,
\* accumulated grows by the duration and nothing is emitted.  A span is
\* emitted in an iteration only on strict excess with a span running.  Empty
\* input yields empty output.
C16_GreedyTieBreak ==
    /\ [](MergeReturned /\ entries = <<>> => combined_entries = <<>>)
    /\ [][(pc = "combine" /\ idx <= Len(entries))
          => LET f == entries[idx]
                 d == f["end"] - f.start
             IN  /\ (~IsNone(current_entry) /\ total_duration + d <= TargetDuration)
                    => /\ current_entry' =
                             Some([start |-> Val(current_entry).start,
                                   end |-> f["end"],
                                   text |-> Val(current_entry).text \o <<" ">> \o f.text])
                       /\ total_duration' = total_duration + d
                       /\ combined_entries' = combined_entries
                 /\ (combined_entries' # combined_entries)
                    => (total_duration + d > TargetDuration /\ ~IsNone(current_entry))]_vars

\* two fragments of 15 seconds have been absorbed into one span: exactly 30
C16_Witness ==
    /\ pc = "combine"
    /\ idx = 3
    /\ total_duration = 30
    /\ combined_entries = <<>>
    /\ ~IsNone(current_entry)
    /\ Val(current_entry).text = <<"a", " ", "b">>

\* C17: the merge neither loses, duplicates nor reorders text: the span
\* texts joined with single spaces equal the fragment texts joined with
\* single spaces, the first span starts at the first fragment's start and the
\* last span ends at the last fragment's end.
C17_TextPreserved ==
    MergeReturned
    => /\ JoinTexts(combined_entries) = JoinTexts(entries)
       /\ entries # <<>>
          => /\ combined_entries # <<>>
             /\ combined_entries[1].start = entries[1].start
             /\ combined_entries[Len(combined_entries)]["end"] = entries[Len(entries)]["end"]

\* three fragments were merged into two spans, the first of two fragments
C17_Witness ==
    /\ pc = "save_segments"
    /\ Len(entries) = 3
    /\ Len(combined_entries) = 2
    /\ combined_entries[1].text = <<"a", " ", "b">>


----------------------------------------------------------------------------
(* Properties of the keyword finder, checked under KwSpec *)

\* the hit that process_segments records for fragment f of segment number num
HitOf(f, num) == [timestamp |-> f.start + num * SegmentSeconds, text |-> f.text]

IsHit(h, k) == \E n \in 1..Len(Val(results)[k]) : Val(results)[k][n] = h

\* keyword k matches fragment f: case-insensitive substring
Matches(k, f) == contains(lower(k), lower(f.text))

\* no entry of the comma-separated keyword argument is usable
NoUsableKeyword(arg) ==
    \A i \in 1..Len(split(arg, ",")) : strip(split(arg, ",")[i]) = <<>>

\* C4: with a time window [begin, end] supplied, only fragments that lie
\* fully inside it (global start >= begin and global end <= end) yield hits.
C4_OnlyFragmentsInsideWindowHit ==
    (~IsNone(results) /\ ~IsNone(begin_time) /\ ~IsNone(end_time))
    => \A t \in 1..Len(transcribed) :
       \A n \in 1..Len(transcribed[t].fragments) :
          LET f == transcribed[t].fragments[n]
              offset == transcribed[t].num * SegmentSeconds
          IN  (\E k \in DOMAIN Val(results) : IsHit(HitOf(f, transcribed[t].num), k))
              => /\ f.start + offset >= Val(begin_time)
                 /\ f["end"] + offset <= Val(end_time)

\* C5 as stated: at most one chunk file is on disk at any time.
C5_AtMostOneChunkResident == Cardinality(segment_files) <= 1

\* C5 as amended: the split writes every chunk file before the first chunk
\* is processed; from then until process_segments returns, the chunk files
\* on disk are exactly those of the chunks not yet processed, plus those
\* whose os.remove raised: each chunk's file is removed before the next
\* chunk is processed, whether or not the chunk failed.
C5_ChunkRemovedBeforeNext ==
    (kpc \in {"load_model", "segments", "report"})
    => segment_files =
          {segments[j] : j \in seg_i..Len(segments)} \cup undeletable

C5_Witness ==
    /\ kpc = "segments"
    /\ Len(segments) = 2
    /\ seg_i = 2
    /\ ~transcribed[1].ok
    /\ segment_files = {segments[2]}

\* C6: when the run has terminated, on the success path or on a failure
\* path, no chunk file and no downloaded video file is left on disk.
C6_NoTemporaryArtifactRemains ==
    (kpc = "done") => (segment_files = {} /\ youtube_file = "absent")

\* C7: a chunk whose transcription fails is skipped and the run goes on:
\* once the loop has started, every chunk of the list is processed, the run
\* leaves the loop only by returning the mapping to the report, and the
\* mapping holds every hit of the chunks that did not fail.
C7_FailedChunkSkipped ==
    /\ (kpc = "segments") => (Len(transcribed) = seg_i - 1 /\ IsNone(error))
    /\ (Len(transcribed) > 0 /\ kpc \in {"report", "cleanup", "done"})
       => /\ Len(transcribed) = Len(segments)
          /\ \A j \in 1..Len(segments) : transcribed[j].num = segments[j]
          /\ kpc = "report" \/ ~IsNone(report) \/ error = Some("OSError")
          /\ ~IsNone(results)
          /\ \A t \in 1..Len(transcribed) :
             \A n \in 1..Len(transcribed[t].fragments) :
             \A i \in 1..Len(keywords) :
                (transcribed[t].ok /\ Matches(keywords[i], transcribed[t].fragments[n]))
                => IsHit(HitOf(transcribed[t].fragments[n], transcribed[t].num),
                         keywords[i])

C7_Witness ==
    /\ kpc = "report"
    /\ Len(segments) = 2
    /\ ~transcribed[1].ok
    /\ transcribed[2].ok
    /\ \E k \in DOMAIN Val(results) : Val(results)[k] # <<>>

\* C9: when no usable keyword remains after trimming and dropping blank
\* entries, the search fails with EmptyKeywordSet: no chunking is started, no
\* blank keyword is a key of the mapping, and a run that is not ended by an
\* earlier fatal error ends with EmptyKeywordSet.
C9_EmptyKeywordSetFails ==
    NoUsableKeyword(keywords_arg)
    => /\ ~split_called
       /\ ~IsNone(results) => <<>> \notin DOMAIN Val(results)
       /\ (/\ kpc = "done"
           /\ error \notin {Some("FileNotFoundError"), Some("DownloadError"),
                            Some("ValueError")})
          => error = Some("EmptyKeywordSet")

\* C10: from the moment the mapping exists until it is returned, whatever
\* number of chunks has been processed or has failed, every keyword of the
\* keyword list is a key of it, with an empty sequence when no fragment of a
\* transcribed chunk matches the keyword.
C10_EveryKeywordIsAKey ==
    ~IsNone(results)
    => \A i \in 1..Len(keywords) :
          /\ keywords[i] \in DOMAIN Val(results)
          /\ (\A t \in 1..Len(transcribed) :
              \A n \in 1..Len(transcribed[t].fragments) :
                 ~Matches(keywords[i], transcribed[t].fragments[n]))
             => Val(results)[keywords[i]] = <<>>

C10_Witness ==
    /\ kpc = "report"
    /\ Len(keywords) = 2
    /\ Val(results)[keywords[1]] # <<>>
    /\ Val(results)[keywords[2]] = <<>>
    /\ \E t \in 1..Len(transcribed) : ~transcribed[t].ok

\* the hits of keyword k in the fragments frs of segment num: one per
\* matching fragment, in order, with the fragment's original text
RECURSIVE ExpectedFragmentHits(_, _, _)
ExpectedFragmentHits(k, frs, num) ==
    IF frs = <<>> THEN <<>>
    ELSE (IF Matches(k, Head(frs)) THEN <<HitOf(Head(frs), num)>> ELSE <<>>)
         \o ExpectedFragmentHits(k, Tail(frs), num)

\* the hits of keyword k in the transcriptions ts, in order
RECURSIVE ExpectedHits(_, _)
ExpectedHits(k, ts) ==
    IF ts = <<>> THEN <<>>
    ELSE ExpectedFragmentHits(k, Head(ts).fragments, Head(ts).num)
         \o ExpectedHits(k, Tail(ts))

\* C11: a fragment yields a hit for keyword k exactly when the lower-cased k
\* is a contiguous substring of the fragment's lower-cased text; the hit
\* records the fragment's original text, and there is one hit per (fragment,
\* keyword) pair: the hits of k are those of the matching fragments, once
\* each, in the order of the transcriptions.  (Stated for the keywords that
\* are not blank.)
C11_OneHitPerMatchingFragment ==
    ~IsNone(results)
    => \A k \in DOMAIN Val(results) :
          k # <<>> => Val(results)[k] = ExpectedHits(k, transcribed)

\* the time argument arg was given and is not a time: parse_time raises on it
Malformed(arg) == ~IsNone(arg) /\ parse_time(arg).raised

\* C12: fatal configuration errors abort the run before any chunking begins:
\* if the begin or end time argument is malformed, or begin >= end, or the
\* local source path does not exist, then split_video is never invoked and no
\* chunk file is created in that run.
C12_ConfigErrorAbortsBeforeChunking ==
    LET b == parse_time(begin_arg)
        e == parse_time(end_arg)
        fatal == \/ Malformed(begin_arg)
                 \/ Malformed(end_arg)
                 \/ /\ ~b.raised /\ ~IsNone(b.value)
                    /\ ~e.raised /\ ~IsNone(e.value)
                    /\ Val(b.value) >= Val(e.value)
                 \/ video = "missing"
    IN  fatal => ~split_called /\ segment_files = {}

----------------------------------------------------------------------------
(* Properties of split_video and process_segments, checked under LibSpec *)

\* C13: every keyword hit carries a global timestamp: for the window size w
\* that split_video was called with, a hit found in the chunk of index i has
\* timestamp = chunk-local fragment start + i * w.  (Stated for the chunks
\* that the split wrote.)
C13_TimestampRebasedByWindow ==
    ~IsNone(results)
    => /\ \A k \in DOMAIN Val(results) :
          \A j \in 1..Len(Val(results)[k]) :
             \E t \in 1..Len(transcribed) :
             \E n \in 1..Len(transcribed[t].fragments) :
                LET f == transcribed[t].fragments[n]
                    i == transcribed[t].num
                IN  /\ Val(results)[k][j].text = f.text
                    /\ \/ i = StaleSegment
                       \/ Val(results)[k][j].timestamp = f.start + i * split_window
       /\ \A t \in 1..Len(transcribed) :
          \A n \in 1..Len(transcribed[t].fragments) :
          \A k \in DOMAIN Val(results) :
             LET f == transcribed[t].fragments[n]
                 i == transcribed[t].num
             IN  (Matches(k, f) /\ i # StaleSegment)
                 => IsHit([timestamp |-> f.start + i * split_window, text |-> f.text], k)

\* C18: a failed or missing chunk does not shift the timeline of later
\* chunks: the offset of a hit is that of the number in the chunk's file
\* name, whatever the chunk's position in the loop and whatever happened to
\* the chunks before it.  Every chunk is processed under the number of its
\* file, every matching fragment of a transcribed chunk has its hit at
\* fragment start + number * 120, and the mapping holds no other hit.
C18_OffsetFromFileNumber ==
    ~IsNone(results)
    => /\ \A t \in 1..Len(transcribed) :
          /\ transcribed[t].num = segments[t]
          /\ \A n \in 1..Len(transcribed[t].fragments) :
             \A k \in DOMAIN Val(results) :
                Matches(k, transcribed[t].fragments[n])
                => IsHit(HitOf(transcribed[t].fragments[n], segments[t]), k)
       /\ \A k \in DOMAIN Val(results) :
          \A j \in 1..Len(Val(results)[k]) :
             \E t \in 1..Len(transcribed) :
             \E n \in 1..Len(transcribed[t].fragments) :
                Val(results)[k][j] = HitOf(transcribed[t].fragments[n], segments[t])

\* chunk 0 failed, the file after it in the list is not chunk 1 (a number is
\* missing from the list), and its hit has the offset of its own number
C18_Witness ==
    /\ kpc = "report"
    /\ Len(transcribed) = 2
    /\ ~transcribed[1].ok
    /\ transcribed[2].ok
    /\ transcribed[2].num = StaleSegment
    /\ \E k \in DOMAIN Val(results) :
       \E j \in 1..Len(Val(results)[k]) :
          Val(results)[k][j].timestamp = 5 + StaleSegment * SegmentSeconds

----------------------------------------------------------------------------
(* Properties of the time codec, checked under CodecSpec *)

\* C14: round trip of the time codec: for every non-negative whole number of
\* seconds s, one day or more included, parse_time(format_time(s)) succeeds
\* and equals s.
C14_RoundTrip ==
    (codec_pc = "done" /\ ~IsNone(seconds))
    => Val(parsed) = Returned(seconds)

\* a number with a decimal point: digits, a point, digits
IsDecimalLiteral(s) ==
    LET q == split(strip(s), ".") IN
    /\ Len(q) = 2
    /\ \A i \in 1..2 : q[i] # <<>> /\ \A j \in 1..Len(q[i]) : IsDigit(q[i][j])

\* the seconds of a text of one to three integer components
SecondsOf(parts) ==
    IF Len(parts) = 3 THEN 3600 * int(parts[1]) + 60 * int(parts[2]) + int(parts[3])
    ELSE IF Len(parts) = 2 THEN 60 * int(parts[1]) + int(parts[2])
    ELSE int(parts[1])

\* what Python answers for the texts of TimeTexts that it accepts
ExpectedSeconds ==
    { <<<<"1", ":", "0", "2", ":", "0", "3">>, 3723>>,
      <<<<"1", "0", ":", "5">>, 605>>,
      <<<<"4", "5">>, 45>>,
      <<<<"0", "7">>, 7>>,
      <<<<" ", "7", " ">>, 7>>,
      <<<<"-", "5">>, 0 - 5>>,
      <<<<"+", "5">>, 5>>,
      <<<<"1", ":", "-", "2">>, 58>> }

\* C15 as amended: parse_time accepts exactly the texts of one, two or three
\* colon-separated components that are each an integer literal of Python
\* (digits, with an optional sign and blanks around), and returns
\* 3600H+60M+S, 60M+S or the integer; every other text (a decimal number, a
\* non-numeric or empty component, more than three components, the empty
\* string) raises the ValueError and returns no value.
C15_IntegerShapesOnly ==
    (codec_pc = "done" /\ ~IsNone(time_arg))
    => LET parts == split(Val(time_arg), ":")
           accepted == /\ Len(parts) <= 3
                       /\ \A p \in 1..Len(parts) : IsIntLiteral(parts[p])
       IN  /\ accepted => Val(parsed) = Returned(Some(SecondsOf(parts)))
           /\ ~accepted => Val(parsed) = Raised
           /\ \A e \in ExpectedSeconds :
                 Val(time_arg) = e[1] => Val(parsed) = Returned(Some(e[2]))
           /\ (IsNone(seconds) /\ \A e \in ExpectedSeconds : Val(time_arg) # e[1])
              => Val(parsed) = Raised

\* the decimal number 1.5 was given and parse_time raised
C15_Witness ==
    /\ codec_pc = "done"
    /\ time_arg = Some(<<"1", ".", "5">>)
    /\ Val(parsed) = Raised

\* C15 as stated: a bare decimal number of seconds is accepted too
C15_DecimalAccepted ==
    (codec_pc = "done" /\ ~IsNone(time_arg))
    => LET parts == split(Val(time_arg), ":")
           accepted == \/ /\ Len(parts) <= 3
                          /\ \A p \in 1..Len(parts) : IsIntLiteral(parts[p])
                       \/ IsDecimalLiteral(Val(time_arg))
       IN  /\ accepted <=> ~Val(parsed).raised
           /\ (Len(parts) <= 3 /\ \A p \in 1..Len(parts) : IsIntLiteral(parts[p]))
              => Val(parsed) = Returned(Some(SecondsOf(parts)))

----------------------------------------------------------------------------
(* Properties of two runs at once, checked under ConcSpec *)

\* C19: two runs on different videos that execute at once on one machine do
\* not interfere: each run transcribes exactly the chunk files that its own
\* split wrote from its own video; none of them is deleted, overwritten or
\* consumed by the other run.
C19_RunsDoNotInterfere ==
    \A r \in Runs :
       /\ \A j \in 1..Len(run_transcribed[r]) : run_transcribed[r][j].video = r
       /\ (run_pc[r] = "done")
          => {run_transcribed[r][j].num : j \in 1..Len(run_transcribed[r])}
                = 0..(run_chunks[r] - 1)
       /\ (run_pc[r] \in {"glob", "segments"})
          => \A n \in 0..(run_chunks[r] - 1) :
                (\A j \in 1..Len(run_transcribed[r]) : run_transcribed[r][j].num # n)
                => shared_files[n] = r

=============================================================================
